---- MODULE Spec2Model ----
(***************************************************************************)
(* Model of the OpenCode process bridge (OpenCodeBridge, spawn-per-prompt  *)
(* design) together with the heuristic adapter it forwards to and the      *)
(* child processes it spawns.                                              *)
(*                                                                         *)
(* Every handler of the bridge is one action.  The callbacks a child       *)
(* process delivers (stdout line, exit, spawn error) and the adapter's     *)
(* flush timer are actions of their own: the event loop runs them one at a *)
(* time, in any order the operating system produces.                       *)
(*                                                                         *)
(* The variables op, fired, notified, spawned and shimOps observe the      *)
(* latest step: which handler ran, what it fired on onEvent and on         *)
(* onStateChanged, which spawn() calls it made and which shim file         *)
(* operations it performed.                                                *)
(***************************************************************************)
EXTENDS Integers, Sequences, FiniteSets, TLC

\* Bounds of the model.
MaxProcs == 2
MaxLines == 1
\* Events fed to the tracker.
MaxEvents == 5
\* processLine calls made on an adapter used on its own.
MaxAdapterLines == 3
\* /ask requests made of the chat participant, and the stdout lines the
\* processes of their prompts write.
MaxAsks == 2
MaxStreamLines == 2

\* `process: ChildProcess | null = null`, `code: number | null`.
NoProcess == 0
NullCode == -1

NoContainer == "undefined"
NoWorkspace == "undefined"
NoPath == "undefined"
NoEnv == "undefined"
\* No exit code belongs to the step.
NoCode == NullCode - 1

ContainerIds == {"abc123"}
Workspaces == {"/workspaces/project"}
ExecutionModes == {"local-with-remote-exec", "in-container"}
\* 0, a representative non-zero code, and null.
ExitCodes == {0, 1, NullCode}
Pids == 1..MaxProcs

Texts == {"hello"}

\* A /ask request: where handleAsk stands, the process its sendPrompt spawned,
\* the events its listener was handed and the result it resolved with.
Requests == 1..MaxAsks
NoAsk == [pc |-> "none", pid |-> NoProcess, seen |-> 0, result |-> "none"]
RefLists == {<<>>, <<"/src/a.ts", "/src/b.ts">>}

VARIABLES
    state,                  \* OpenCodeBridge._state
    process,                \* OpenCodeBridge.process (a pid or NoProcess)
    shellWrapperPath,       \* OpenCodeBridge.shellWrapperPath
    preparedEnv,            \* OpenCodeBridge.preparedEnv
    textBuffer,             \* OpenCodeAdapter.textBuffer (lines, joined by "\n")
    flushTimer,             \* OpenCodeAdapter.flushTimer is pending
    containerId,            \* DevcontainerManager.containerId
    remoteWorkspaceFolder,  \* DevcontainerManager.remoteWorkspaceFolder
    executionMode,          \* getConfig().executionMode
    procs,                  \* the child processes spawned so far
    nLines,                 \* stdout lines and stderr chunks delivered so far
    op,                     \* the handler that ran in the latest step
    fired,                  \* events fired on onEvent in the latest step
    notified,               \* states fired on onStateChanged in the latest step
    spawned,                \* spawn() calls of the latest step
    shimOps,                \* writeShellWrapper/removeShellWrapper calls of the latest step
    subagents,              \* SubagentTracker.subagents (a Map: entries in insertion order)
    nEvents,                \* events fed to the tracker so far
    tev,                    \* the event the tracker handled in the latest step
    changed,                \* ids fired on onSubagentChanged in the latest step
    tally,                  \* history of an adapter used on its own: processLine calls,
                            \* lines that matched a detector, events emitted, flushes
                            \* that found text in the buffer
    agents,                 \* AgentRegistry.agents (a Map: entries in insertion order)
    defaultAgentId,         \* AgentRegistry._defaultAgentId
    lastCall,               \* the registry method that ran in the latest step, with
                            \* what it read and what it returned or threw
    rendered,               \* the lines of the stream.markdown call of the summary
    asks                    \* the /ask requests of the chat participant (handleAsk)

bridgeVars == <<state, process, shellWrapperPath, preparedEnv>>
adapterVars == <<textBuffer, flushTimer>>
envVars == <<containerId, remoteWorkspaceFolder, executionMode>>
stepVars == <<op, fired, notified, spawned, shimOps>>
trackerVars == <<subagents, nEvents, tev, changed>>
\* What the bridge, its adapter and its processes never touch.
registryVars == <<agents, defaultAgentId, lastCall>>
offBridge == <<trackerVars, tally, registryVars, rendered, asks>>
vars == <<state, process, shellWrapperPath, preparedEnv, textBuffer, flushTimer,
          containerId, remoteWorkspaceFolder, executionMode, procs, nLines,
          op, fired, notified, spawned, shimOps, subagents, nEvents, tev, changed,
          tally, agents, defaultAgentId, lastCall, rendered, asks>>

-----------------------------------------------------------------------------
\* Events of the schema (types.ts).

DoneEvent == [type |-> "done", agent |-> "default"]
ErrorEvent(m) == [type |-> "error", message |-> m]
TextEvent(c, a) == [type |-> "text", content |-> c, agent |-> a]
StatusEvent(m, a) == [type |-> "status", message |-> m, agent |-> a]
NoEvent == [type |-> "none"]

IsDone(e) == e.type = "done"
HasDone(evs) == \E i \in 1..Len(evs) : IsDone(evs[i])
HasError(evs) == \E i \in 1..Len(evs) : evs[i].type = "error"

CodeStr(code) ==
    CASE code = 0 -> "0"
      [] code = 1 -> "1"
      [] OTHER -> "null"

\* The latest step: the handler, the process it is about, the exit code it was
\* given, the prompt text it was given, and _state when it began.
Step(name, pid, code, text) ==
    [name |-> name, pid |-> pid, code |-> code, text |-> text, from |-> state]

-----------------------------------------------------------------------------
\* Child processes.

\* st: "none" (not spawned), "running", "failed" (spawn failed, error callback
\* pending), "exited" (exit callback delivered), "dead" (error callback delivered).
\* killed: kill() reached it while running.  streamDone: a done event was
\* emitted while handling one of its stdout lines before its exit.
NoProc == [st |-> "none", killed |-> FALSE, streamDone |-> FALSE]
Spawned == {p \in Pids : procs[p].st # "none"}
NewPid == Cardinality(Spawned) + 1
LastSpawned == Cardinality(Spawned)
Live(ps, p) == ps[p].st = "running"

\* A failed spawn reports its error through process.nextTick: that callback
\* runs before any I/O callback, timer or settings change is dispatched.
tickPending == \E p \in Pids : procs[p].st = "failed"

\* ChildProcess.kill(): the signal is sent to a process that is still there (kill
\* returns false otherwise); the exit callback comes later.
kill(ps, p) == IF Live(ps, p) THEN [ps EXCEPT ![p].killed = TRUE] ELSE ps

-----------------------------------------------------------------------------
\* Stdout lines.  A line is an atomic string; what trimming, JSON.parse and
\* the regular expressions make of it is tabulated here.

LStepFinish == "{\"type\":\"step_finish\"}"
LDone == "{\"type\":\"done\"}"
LText == "{\"type\":\"text\",\"text\":\"hi\"}"
LUnknown == "{\"type\":\"zzz\"}"
LSubagentStart == "{\"type\":\"subagent_start\",\"id\":\"sa-1\",\"name\":\"coding-agent\"}"
LToolStart == "{\"type\":\"tool_start\",\"tool\":\"shell\",\"subagentId\":\"sa-1\"}"
LTextContent == "{\"type\":\"text\",\"content\":\"hi\"}"
LUnknownText == "{\"type\":\"unknown_event\",\"text\":\"Some text content\"}"
LBadJson == "{not json"
LCompletion == "Done."
LStatus == "[status] Working"
LTool == "Running: npm test"
LAgent == "[agent:sa-1] Starting coder..."
LError == "Error: boom"
LPlain == "thinking"
LBlank == "   "

AllLines == {LStepFinish, LDone, LText, LTextContent, LSubagentStart, LToolStart, LUnknown, LUnknownText, LBadJson, LCompletion,
             LStatus, LTool, LAgent, LError, LPlain, LBlank}
\* The lines the processes of Spec write.
StdoutLines == {LStepFinish, LDone, LText, LUnknown, LCompletion, LPlain, LBlank}

Trim(line) == IF line = LBlank THEN "" ELSE line
StartsWithBrace(line) ==
    line \in {LStepFinish, LDone, LText, LTextContent, LSubagentStart, LToolStart, LUnknown,
              LUnknownText, LBadJson}

\* JSON.parse: the parsed object as a record, or NoJson when it throws.  A
\* `content` is held the way the adapter's buffer holds text: as its lines.
NoJson == [ok |-> FALSE]
JsonParse(line) ==
    CASE line = LStepFinish -> [ok |-> TRUE, type |-> "step_finish"]
      [] line = LDone -> [ok |-> TRUE, type |-> "done"]
      [] line = LText -> [ok |-> TRUE, type |-> "text", text |-> "hi"]
      [] line = LTextContent -> [ok |-> TRUE, type |-> "text", content |-> <<"hi">>]
      [] line = LSubagentStart ->
            [ok |-> TRUE, type |-> "subagent_start", id |-> "sa-1", name |-> "coding-agent"]
      [] line = LToolStart ->
            [ok |-> TRUE, type |-> "tool_start", tool |-> "shell", subagentId |-> "sa-1"]
      [] line = LUnknown -> [ok |-> TRUE, type |-> "zzz"]
      [] line = LUnknownText ->
            [ok |-> TRUE, type |-> "unknown_event", text |-> "Some text content"]
      [] OTHER -> NoJson

Has(raw, k) == k \in DOMAIN raw
\* raw.a ?? raw.b ?? d
Coalesce2(raw, a, b, d) == IF Has(raw, a) THEN raw[a] ELSE IF Has(raw, b) THEN raw[b] ELSE d
Coalesce1(raw, a, d) == IF Has(raw, a) THEN raw[a] ELSE d

mapEvent(raw) ==
    CASE raw.type = "text" ->
            TextEvent(Coalesce2(raw, "text", "content", ""), Coalesce1(raw, "agent", "default"))
      [] raw.type = "status" ->
            StatusEvent(Coalesce1(raw, "message", ""), Coalesce1(raw, "agent", "default"))
      [] raw.type = "done" ->
            [type |-> "done", agent |-> Coalesce1(raw, "agent", "default")]
      [] raw.type = "error" ->
            ErrorEvent(Coalesce1(raw, "message", "Unknown error"))
      [] raw.type = "tool_start" ->
            [type |-> "tool_start", tool |-> Coalesce2(raw, "tool", "name", "unknown"),
             args |-> Coalesce1(raw, "args", "{}"),
             subagentId |-> Coalesce1(raw, "subagentId", "undefined")]
      [] raw.type = "tool_end" ->
            [type |-> "tool_end", tool |-> Coalesce2(raw, "tool", "name", "unknown"),
             result |-> Coalesce1(raw, "result", ""),
             subagentId |-> Coalesce1(raw, "subagentId", "undefined")]
      [] raw.type = "subagent_start" ->
            [type |-> "subagent_start", id |-> Coalesce1(raw, "id", ""),
             name |-> Coalesce1(raw, "name", ""), parent |-> Coalesce1(raw, "parent", "default")]
      [] raw.type = "subagent_end" ->
            [type |-> "subagent_end", id |-> Coalesce1(raw, "id", ""),
             status |-> Coalesce1(raw, "status", "completed")]
      [] raw.type = "step_start" ->
            StatusEvent(Coalesce1(raw, "message", "Processing..."), Coalesce1(raw, "agent", "default"))
      [] raw.type = "step_finish" ->
            [type |-> "done", agent |-> Coalesce1(raw, "agent", "default")]
      [] OTHER ->
            IF Has(raw, "text") THEN TextEvent(raw.text, "default")
            ELSE IF Has(raw, "content") THEN TextEvent(raw.content, "default")
            ELSE NoEvent

-----------------------------------------------------------------------------
\* Standard error.  A "data" callback delivers a chunk: one or more lines.  A
\* chunk is the sequence of its lines, as the text buffer is; a message taken
\* from it is the sequence of lines it spans.

EErr == "Error: something went wrong"
ELower == "error: disk full"
EInfo == "Loading configuration..."

StderrLines == {EErr, ELower, EInfo, LBlank}
\* The chunks the processes of Spec write.
StderrChunks == {<<EErr>>, <<ELower>>, <<EInfo>>, <<LBlank>>, <<EInfo, EErr>>}

IsBlank(line) == line = LBlank
RECURSIVE DropBlankHead(_)
DropBlankHead(chunk) ==
    IF chunk = <<>> THEN <<>>
    ELSE IF IsBlank(Head(chunk)) THEN DropBlankHead(Tail(chunk)) ELSE chunk
RECURSIVE DropBlankTail(_)
DropBlankTail(chunk) ==
    IF chunk = <<>> THEN <<>>
    ELSE IF IsBlank(chunk[Len(chunk)])
         THEN DropBlankTail(SubSeq(chunk, 1, Len(chunk) - 1)) ELSE chunk
\* data.trim(): white space at both ends of the chunk goes, inner lines stay.
TrimChunk(chunk) == DropBlankTail(DropBlankHead(chunk))

\* /^(?:Error|ERROR|FATAL|fatal|panic|PANIC|Traceback)[\s:]/i, unanchored to
\* lines: it looks at the start of the text it is given.
isStderrError(trimmed) == trimmed[1] \in {EErr, ELower}

\* handleStderr: the events it fires for a chunk.
handleStderrFires(data) ==
    LET trimmed == TrimChunk(data)
    IN IF trimmed = <<>> THEN <<>>
       ELSE IF isStderrError(trimmed) THEN <<ErrorEvent(trimmed)>>
       ELSE <<StatusEvent(trimmed, "system")>>

-----------------------------------------------------------------------------
\* Heuristic adapter (OpenCodeAdapter).

\* tryParseJson: any object with a string type is passed through as it is.
tryParseJson(line) ==
    IF ~StartsWithBrace(line) THEN NoEvent
    ELSE LET parsed == JsonParse(line)
         IN IF parsed.ok /\ Has(parsed, "type")
            THEN [k \in DOMAIN parsed \ {"ok"} |-> parsed[k]]
            ELSE NoEvent

\* /^\[status\]\s*(.+)$/i (no line of the table starts with a spinner).
detectStatusLine(line) ==
    IF line = LStatus THEN StatusEvent("Working", "default") ELSE NoEvent

\* /^(?:Running|Executing):\s*(.+)$/i, then Reading:, then Editing:/Writing:.
detectToolCall(line) ==
    IF line = LTool
    THEN [type |-> "tool_start", tool |-> "shell", args |-> [command |-> "npm test"]]
    ELSE NoEvent

\* /^\[agent:([\w-]+)\]\s*(?:Starting|Spawning)\s+(.+?)\.{0,3}$/i, then the end form.
detectSubagent(line) ==
    IF line = LAgent
    THEN [type |-> "subagent_start", id |-> "sa-1", name |-> "coder", parent |-> "default"]
    ELSE NoEvent

detectCompletion(line) == IF line = LCompletion THEN DoneEvent ELSE NoEvent

\* /^(?:Error|ERROR|error):\s*(.+)$/
detectError(line) == IF line = LError THEN ErrorEvent("boom") ELSE NoEvent

\* Mutant: the chain stops before the error detector.
detect_SkipsError(line) ==
    IF tryParseJson(line) # NoEvent THEN tryParseJson(line)
    ELSE IF detectStatusLine(line) # NoEvent THEN detectStatusLine(line)
    ELSE IF detectToolCall(line) # NoEvent THEN detectToolCall(line)
    ELSE IF detectSubagent(line) # NoEvent THEN detectSubagent(line)
    ELSE detectCompletion(line)

\* The first detector that matches, in the order of processLine.
detect(line) ==
    IF tryParseJson(line) # NoEvent THEN tryParseJson(line)
    ELSE IF detectStatusLine(line) # NoEvent THEN detectStatusLine(line)
    ELSE IF detectToolCall(line) # NoEvent THEN detectToolCall(line)
    ELSE IF detectSubagent(line) # NoEvent THEN detectSubagent(line)
    ELSE IF detectCompletion(line) # NoEvent THEN detectCompletion(line)
    ELSE detectError(line)

\* Mutant: flushText fires one text event for every buffered line.
flushTextFires_PerLine(buf) == [i \in 1..Len(buf) |-> TextEvent(<<buf[i]>>, "default")]

\* flushText: the events it fires (the buffer is empty afterwards).
flushTextFires(buf) == IF buf # <<>> THEN <<TextEvent(buf, "default")>> ELSE <<>>

\* Mutant: the line replaces the buffer instead of joining it.
accumulateText_Overwrites(line, buf, timer) == [buffer |-> <<line>>, timer |-> TRUE]

\* Mutant: a buffered line starts no timer.
accumulateText_NoTimer(line, buf, timer) == [buffer |-> Append(buf, line), timer |-> timer]

\* accumulateText: the line joins the buffer and the 100 ms timer is restarted.
accumulateText(line, buf, timer) == [buffer |-> Append(buf, line), timer |-> TRUE]

\* Mutant: the detected event is fired before the buffer is flushed.
processLine_EventFirst(raw, buf, timer) ==
    LET line == Trim(raw)
    IN IF line = "" THEN [fires |-> <<>>, buffer |-> buf, timer |-> timer]
       ELSE IF detect(line) # NoEvent
            THEN [fires |-> <<detect(line)>> \o flushTextFires(buf),
                  buffer |-> <<>>, timer |-> FALSE]
            ELSE [fires |-> <<>>, buffer |-> Append(buf, line), timer |-> TRUE]

\* processLine: [fires, buffer, timer] for a raw line.
processLine(raw, buf, timer) ==
    LET line == Trim(raw)
    IN IF line = "" THEN [fires |-> <<>>, buffer |-> buf, timer |-> timer]
       ELSE IF detect(line) # NoEvent
            THEN [fires |-> flushTextFires(buf) \o <<detect(line)>>,
                  buffer |-> <<>>, timer |-> FALSE]
            ELSE [fires |-> <<>>,
                  buffer |-> accumulateText(line, buf, timer).buffer,
                  timer |-> accumulateText(line, buf, timer).timer]

-----------------------------------------------------------------------------
\* Bridge helpers.

isRunning(s) == s \in {"idle", "busy"}

\* Mutant: the early return forgets the busy state.
alreadyPrepared_IdleOnly(s) == s = "idle"

\* start(): `if (this._state === "idle" || this._state === "busy") return;`
alreadyPrepared(s) == s = "idle" \/ s = "busy"

\* Mutant: the local mode forgets to check the remote workspace folder.
containerAvailable_IdOnly(mode, cid, ws) == cid # NoContainer

\* prepareInContainer / prepareLocalWithRemoteExec: is the sandbox addressable?
containerAvailable(mode, cid, ws) ==
    IF mode = "in-container" THEN cid # NoContainer
    ELSE cid # NoContainer /\ ws # NoWorkspace

NotRunningStartMsg == "Dev container is not running. Start it first."
NotRunningMsg == "Dev container is not running."
SpawnFailureMsg == "spawn ENOENT"
ExitMsg(code) == <<"OpenCode exited with code ", CodeStr(code)>>

WrapperPath == "/tmp/opencode-shell-wrapper.sh"
writeShellWrapper(cid, ws, env) == WrapperPath

\* The forwarded variables of the host environment, as -e flags use them.
resolveForwardedEnvVars == <<"OPENAI_API_KEY=sk">>

\* Mutant: the references follow the text instead of leading it.
buildPromptText_RefsLast(text, references) ==
    IF references = <<>> THEN <<text>>
    ELSE LET refList == [i \in 1..(2 * Len(references) - 1) |->
                            IF i % 2 = 1 THEN "@" \o references[(i + 1) \div 2] ELSE " "]
         IN <<text, "\n\n">> \o refList

\* buildPromptText: the pieces of the string it returns, in order.
buildPromptText(text, references) ==
    IF references = <<>> THEN <<text>>
    ELSE LET refList == [i \in 1..(2 * Len(references) - 1) |->
                            IF i % 2 = 1 THEN "@" \o references[(i + 1) \div 2] ELSE " "]
         IN refList \o <<"\n\n", text>>

envFlags(env) == [i \in 1..(2 * Len(env)) |-> IF i % 2 = 1 THEN "-e" ELSE env[i \div 2]]

\* spawnLocalWithRemoteExec: the spawn() call it makes.
spawnLocalWithRemoteExec(prompt) ==
    [spawn |-> TRUE, command |-> "opencode",
     args |-> <<"run", "--format", "json", "-q", prompt>>,
     env |-> preparedEnv]

\* Mutant: the container check is inverted.
spawnInContainer_Inverted(prompt) ==
    IF containerId # NoContainer
    THEN [spawn |-> FALSE]
    ELSE [spawn |-> TRUE, command |-> "docker",
          args |-> <<"exec", "-i", containerId, "opencode", "run", "--format", "json", "-q", prompt>>,
          env |-> NoEnv]

\* spawnInContainer: the spawn() call it makes, or none when there is no container.
spawnInContainer(prompt) ==
    IF containerId = NoContainer
    THEN [spawn |-> FALSE]
    ELSE [spawn |-> TRUE, command |-> "docker",
          args |-> <<"exec", "-i", "-w",
                     IF remoteWorkspaceFolder # NoWorkspace
                     THEN remoteWorkspaceFolder ELSE "/workspaces">>
                   \o envFlags(resolveForwardedEnvVars)
                   \o <<containerId, "opencode", "run", "--format", "json", "-q", prompt>>,
          env |-> NoEnv]

\* Mutant: a done from the stream leaves the state alone.
nativeState_Keep(event, s) == s

\* handleStdoutLine: `if (event.type === "done") this.setState("idle")`.
nativeState(event, s) == IF IsDone(event) THEN "idle" ELSE s

\* Mutant: a clean exit never synthesizes done.
handleExitFires_NoSynth(code, s) ==
    IF code = 0 \/ code = NullCode THEN <<>>
    ELSE <<[type |-> "error", message |-> <<"OpenCode exited with code ", CodeStr(code)>>]>>

\* Mutant: a failed prompt leaves the bridge in error.
handleExitState_Error(code, s) == IF code = 0 \/ code = NullCode THEN "idle" ELSE "error"

\* handleExit: `if (this._state === "busy") fire(done)` on a clean exit,
\* an error naming the code otherwise.
handleExitFires(code, s) ==
    IF code = 0 \/ code = NullCode
    THEN IF s = "busy" THEN <<DoneEvent>> ELSE <<>>
    ELSE <<ErrorEvent(ExitMsg(code))>>

\* handleExit: both branches end in setState("idle").
handleExitState(code, s) == "idle"

-----------------------------------------------------------------------------
\* Agent configuration (opencodeConfigReader).  A model string is the sequence
\* of its pieces: "/" is a piece of its own, every other piece is a non-empty
\* run of characters without a slash, so that "openai/gpt-4" is
\* <<"openai", "/", "gpt-4">>.  A Map is the sequence of its entries in
\* insertion order.

Str(piece) == <<piece>>
\* `model` left out of an entry, or the empty string: both are falsy.
NoModel == <<>>
ModelOpenAI == <<"openai", "/", "gpt-4">>
ModelBare == <<"gpt-4">>
ModelLeadingSlash == <<"/", "gpt-4">>
ModelTwoSlashes == <<"openrouter", "/", "openai", "/", "gpt-4">>
ConfigModels == {NoModel, ModelOpenAI, ModelBare, ModelLeadingSlash, ModelTwoSlashes}

\* raw.indexOf(piece), counted from 0, -1 when there is none.
indexOf(raw, piece) ==
    IF \E i \in 1..Len(raw) : raw[i] = piece
    THEN (CHOOSE i \in 1..Len(raw) : raw[i] = piece /\ \A j \in 1..(i - 1) : raw[j] # piece) - 1
    ELSE -1

\* raw.substring(from, to) and raw.substring(from), counted from 0.
substring(raw, from, to) == SubSeq(raw, from + 1, to)
substringFrom(raw, from) == SubSeq(raw, from + 1, Len(raw))

parseModelString(raw) ==
    LET idx == indexOf(raw, "/")
    IN IF idx > 0
       THEN [provider |-> substring(raw, 0, idx), model |-> substringFrom(raw, idx + 1)]
       ELSE [provider |-> Str("unknown"), model |-> raw]

\* The ids of the agents met here, and what prettifyName makes of each.
BuiltinIds == {"build", "plan"}
prettifyName(id) ==
    CASE id = "build" -> "Build"
      [] id = "plan" -> "Plan"
      [] id = "code-reviewer" -> "Code Reviewer"
      [] id = "docs" -> "Docs"

BUILTIN_AGENTS ==
    << [id |-> "build", name |-> "Build", provider |-> Str("anthropic"),
        model |-> Str("claude-sonnet-4-20250514"),
        description |-> "Default coding agent with all tools enabled", mode |-> "primary"],
       [id |-> "plan", name |-> "Plan", provider |-> Str("anthropic"),
        model |-> Str("claude-sonnet-4-20250514"),
        description |-> "Planning agent with restricted tool access", mode |-> "primary"] >>

\* What readOpenCodeConfig found: nothing, or the first config file that parsed.
NoDefault == ""
NoConfig == [found |-> FALSE, agent |-> <<>>, default_agent |-> NoDefault]
RawAgentDef(id, model) == [id |-> id, model |-> model]
\* The `agent` sections read: none or empty, `build` with each model string,
\* a new agent, and a new agent ahead of `build`.
AgentSections ==
    {<<>>}
      \cup {<<RawAgentDef("build", m)>> : m \in ConfigModels}
      \cup {<<RawAgentDef("code-reviewer", ModelOpenAI)>>,
            <<RawAgentDef("code-reviewer", ModelBare), RawAgentDef("build", ModelOpenAI)>>}
DefaultAgents == {NoDefault, "plan", "code-reviewer", "nonexistent"}
Configs ==
    {NoConfig} \cup [found : {TRUE}, agent : AgentSections, default_agent : DefaultAgents]

\* What readdirSync lists under .opencode/agents and .opencode/agent, one
\* after the other: ids of markdown files, the same id in both at most.
MarkdownListings == {<<>>, <<"build">>, <<"docs">>, <<"docs", "build">>, <<"build", "build">>}

\* readMarkdownAgents turns one file into an agent.
markdownAgent(id) ==
    [id |-> id, name |-> prettifyName(id), provider |-> Str("configured"),
     model |-> Str("from-prompt"), description |-> "first line of the file",
     mode |-> "primary"]

\* The agent made of one entry of config.agent.
configAgent(raw) ==
    LET parsed == IF raw.model # NoModel
                  THEN parseModelString(raw.model)
                  ELSE [provider |-> Str("unknown"), model |-> Str("unknown")]
    IN [id |-> raw.id, name |-> prettifyName(raw.id), provider |-> parsed.provider,
        model |-> parsed.model, description |-> "description of the entry",
        mode |-> "primary"]

\* Mutant: an id that is already a key keeps its first value.
mapSet_KeepsFirst(map, agent) ==
    IF \E i \in 1..Len(map) : map[i].id = agent.id
    THEN map
    ELSE Append(map, agent)

\* Map.set(agent.id, agent): a known key keeps its place and takes the value.
mapSet(map, agent) ==
    IF \E i \in 1..Len(map) : map[i].id = agent.id
    THEN [i \in 1..Len(map) |-> IF map[i].id = agent.id THEN agent ELSE map[i]]
    ELSE Append(map, agent)

RECURSIVE setAll(_, _)
setAll(map, list) ==
    IF list = <<>> THEN map ELSE setAll(mapSet(map, Head(list)), Tail(list))

mapHas(map, id) == \E i \in 1..Len(map) : map[i].id = id

RECURSIVE mapEach(_)
mapEach(list) ==
    IF list = <<>> THEN <<>> ELSE <<markdownAgent(Head(list))>> \o mapEach(Tail(list))

RECURSIVE configAgents(_)
configAgents(section) ==
    IF section = <<>> THEN <<>>
    ELSE <<configAgent(Head(section))>> \o configAgents(Tail(section))

\* config is what readOpenCodeConfig returned, listing what readdirSync gave.
loadAgentsFromOpenCodeConfig(config, workspaceRoot, listing) ==
    LET builtin == setAll(<<>>, BUILTIN_AGENTS)
        withConfig == IF config.found THEN setAll(builtin, configAgents(config.agent))
                      ELSE builtin
        withMarkdown == IF workspaceRoot THEN setAll(withConfig, mapEach(listing))
                        ELSE withConfig
    IN [agents |-> withMarkdown,
        defaultAgentId |-> IF config.found /\ config.default_agent # NoDefault
                           THEN config.default_agent
                           ELSE "build"]

\* Mutant: the fallback is the last key.
firstKey_Last(map) == map[Len(map)].id

\* this.agents.keys().next().value
firstKey(map) == map[1].id

NoCall ==
    [name |-> "constructor", config |-> NoConfig, workspaceRoot |-> FALSE, listing |-> <<>>,
     id |-> "", threw |-> FALSE,
     result |-> loadAgentsFromOpenCodeConfig(NoConfig, FALSE, <<>>)]

-----------------------------------------------------------------------------
\* Actions.

\* Everything but the tracker's Map, as constructed.
Constructed ==
    /\ state = "stopped"
    /\ process = NoProcess
    /\ shellWrapperPath = NoPath
    /\ preparedEnv = NoEnv
    /\ textBuffer = <<>>
    /\ flushTimer = FALSE
    /\ containerId \in ContainerIds \cup {NoContainer}
    /\ remoteWorkspaceFolder \in Workspaces \cup {NoWorkspace}
    /\ containerId = NoContainer => remoteWorkspaceFolder = NoWorkspace
    /\ executionMode \in ExecutionModes
    /\ procs = [p \in Pids |-> NoProc]
    /\ nLines = 0
    /\ op = [name |-> "init", pid |-> NoProcess, code |-> NoCode, text |-> "", from |-> "stopped"]
    /\ fired = <<>>
    /\ notified = <<>>
    /\ spawned = <<>>
    /\ shimOps = <<>>
    /\ nEvents = 0
    /\ tev = [type |-> "none"]
    /\ changed = <<>>
    /\ tally = [calls |-> 0, structured |-> 0, emitted |-> 0, textFlushes |-> 0]
    /\ agents = setAll(<<>>, NoCall.result.agents)
    /\ defaultAgentId = NoCall.result.defaultAgentId
    /\ lastCall = NoCall
    /\ rendered = <<>>
    /\ asks = [r \in Requests |-> NoAsk]

Init ==
    /\ Constructed
    /\ subagents = <<>>

\* The devcontainer comes up, loses its workspace folder or goes away.
ContainerChange ==
    /\ ~tickPending
    /\ \E cid \in ContainerIds \cup {NoContainer}, ws \in Workspaces \cup {NoWorkspace} :
          /\ cid = NoContainer => ws = NoWorkspace
          /\ <<cid, ws>> # <<containerId, remoteWorkspaceFolder>>
          /\ containerId' = cid
          /\ remoteWorkspaceFolder' = ws
    /\ op' = Step("containerChange", NoProcess, NoCode, "")
    /\ fired' = <<>> /\ notified' = <<>> /\ spawned' = <<>> /\ shimOps' = <<>>
    /\ UNCHANGED <<bridgeVars, adapterVars, executionMode, procs, nLines>>
    /\ UNCHANGED offBridge

\* The user edits the executionMode setting.
ConfigChange ==
    /\ ~tickPending
    /\ \E m \in ExecutionModes \ {executionMode} : executionMode' = m
    /\ op' = Step("configChange", NoProcess, NoCode, "")
    /\ fired' = <<>> /\ notified' = <<>> /\ spawned' = <<>> /\ shimOps' = <<>>
    /\ UNCHANGED <<bridgeVars, adapterVars, containerId, remoteWorkspaceFolder, procs, nLines>>
    /\ UNCHANGED offBridge

start ==
    /\ op' = Step("start", NoProcess, NoCode, "")
    /\ spawned' = <<>>
    /\ UNCHANGED <<process, adapterVars, envVars, procs, nLines>>
    /\ IF alreadyPrepared(state)
       THEN /\ fired' = <<>> /\ notified' = <<>> /\ shimOps' = <<>>
            /\ UNCHANGED <<state, shellWrapperPath, preparedEnv>>
       ELSE IF ~containerAvailable(executionMode, containerId, remoteWorkspaceFolder)
       THEN /\ state' = "error"
            /\ notified' = <<"error">>
            /\ fired' = <<ErrorEvent(NotRunningStartMsg)>>
            /\ shimOps' = <<>>
            /\ UNCHANGED <<shellWrapperPath, preparedEnv>>
       ELSE IF executionMode = "in-container"
       THEN /\ state' = "idle"
            /\ notified' = <<"idle">>
            /\ fired' = <<>> /\ shimOps' = <<>>
            /\ UNCHANGED <<shellWrapperPath, preparedEnv>>
       ELSE /\ shellWrapperPath' =
                   writeShellWrapper(containerId, remoteWorkspaceFolder, resolveForwardedEnvVars)
            /\ shimOps' = <<"write">>
            /\ preparedEnv' = [SHELL |-> shellWrapperPath',
                               OPENCODE_DEVCONTAINER |-> "1",
                               OPENCODE_DEVCONTAINER_ID |-> containerId,
                               OPENCODE_WORKSPACE_FOLDER |-> remoteWorkspaceFolder]
            /\ state' = "idle"
            /\ notified' = <<"idle">>
            /\ fired' = <<>>
    /\ UNCHANGED offBridge

stop ==
    /\ op' = Step("stop", NoProcess, NoCode, "")
    /\ procs' = IF process # NoProcess THEN kill(procs, process) ELSE procs
    /\ process' = NoProcess
    /\ shimOps' = IF shellWrapperPath # NoPath THEN <<"remove">> ELSE <<>>
    /\ shellWrapperPath' = NoPath
    /\ preparedEnv' = NoEnv
    /\ state' = "stopped"
    /\ notified' = <<"stopped">>
    /\ fired' = <<>> /\ spawned' = <<>>
    /\ UNCHANGED <<adapterVars, envVars, nLines>>
    /\ UNCHANGED offBridge

\* sendPrompt; spawnOk is whether the operating system could start the binary.
sendPromptCall(text, references, spawnOk) ==
    LET killedProcs == IF process # NoProcess THEN kill(procs, process) ELSE procs
        promptText == buildPromptText(text, references)
        call == IF executionMode = "in-container"
                THEN spawnInContainer(promptText)
                ELSE spawnLocalWithRemoteExec(promptText)
        pid == NewPid
    IN /\ call.spawn => pid <= MaxProcs
       /\ op' = Step("sendPrompt", IF call.spawn THEN pid ELSE NoProcess, NoCode, text)
       /\ IF call.spawn
          THEN /\ procs' = [killedProcs EXCEPT ![pid] =
                              [st |-> IF spawnOk THEN "running" ELSE "failed",
                               killed |-> FALSE, streamDone |-> FALSE]]
               /\ process' = pid
               /\ spawned' = <<[pid |-> pid, command |-> call.command,
                                args |-> call.args, env |-> call.env]>>
               /\ fired' = <<>>
          ELSE /\ procs' = killedProcs
               /\ process' = NoProcess
               /\ spawned' = <<>>
               /\ fired' = <<ErrorEvent(NotRunningMsg)>>
       /\ state' = "busy"
       /\ notified' = <<"busy">>
       /\ shimOps' = <<>>
       /\ UNCHANGED <<shellWrapperPath, preparedEnv, adapterVars, envVars, nLines>>

\* sendPrompt with no listener on onEvent.
sendPrompt(text, references, spawnOk) ==
    /\ sendPromptCall(text, references, spawnOk)
    /\ UNCHANGED offBridge

cancelCurrentRequestCall ==
    /\ op' = Step("cancel", process, NoCode, "")
    /\ procs' = IF process # NoProcess THEN kill(procs, process) ELSE procs
    /\ fired' = <<>> /\ notified' = <<>> /\ spawned' = <<>> /\ shimOps' = <<>>
    /\ UNCHANGED <<bridgeVars, adapterVars, envVars, nLines>>

\* cancelCurrentRequest called on the bridge directly.
cancelCurrentRequest ==
    /\ cancelCurrentRequestCall
    /\ UNCHANGED offBridge

\* The readline "line" callback of process p: handleStdoutLine(line).  Lines
\* still buffered in the pipe are delivered after a kill and after the exit
\* callback as well.
handleStdoutLineCall(p, line) ==
    LET trimmed == Trim(line)
        raw == JsonParse(trimmed)
        native == IF trimmed # "" /\ StartsWithBrace(trimmed) /\ raw.ok /\ Has(raw, "type")
                  THEN mapEvent(raw) ELSE NoEvent
        viaAdapter == processLine(trimmed, textBuffer, flushTimer)
        out == IF trimmed = "" THEN <<>>
               ELSE IF native # NoEvent THEN <<native>>
               ELSE viaAdapter.fires
    IN /\ ~tickPending
       /\ procs[p].st \in {"running", "exited"}
       /\ nLines' = nLines + 1
       /\ op' = Step("stdout", p, NoCode, "")
       /\ fired' = out
       /\ procs' = [procs EXCEPT ![p].streamDone = @ \/ (Live(procs, p) /\ HasDone(out))]
       /\ IF trimmed # "" /\ native # NoEvent
          THEN /\ state' = nativeState(native, state)
               /\ notified' = IF IsDone(native) THEN <<"idle">> ELSE <<>>
               /\ UNCHANGED adapterVars
          ELSE /\ UNCHANGED state
               /\ notified' = <<>>
               /\ textBuffer' = IF trimmed = "" THEN textBuffer ELSE viaAdapter.buffer
               /\ flushTimer' = IF trimmed = "" THEN flushTimer ELSE viaAdapter.timer
       /\ spawned' = <<>> /\ shimOps' = <<>>
       /\ UNCHANGED <<process, shellWrapperPath, preparedEnv, envVars>>

\* handleStdoutLine with no listener on onEvent.
handleStdoutLine(p, line) ==
    /\ nLines < MaxLines
    /\ handleStdoutLineCall(p, line)
    /\ UNCHANGED offBridge

\* The stderr "data" callback of process p: handleStderr(data).
handleStderr(p, data) ==
    /\ ~tickPending
    /\ procs[p].st \in {"running", "exited"}
    /\ nLines < MaxLines
    /\ nLines' = nLines + 1
    /\ op' = Step("stderr", p, NoCode, "")
    /\ fired' = handleStderrFires(data)
    /\ notified' = <<>> /\ spawned' = <<>> /\ shimOps' = <<>>
    /\ UNCHANGED <<bridgeVars, adapterVars, envVars, procs>>
    /\ UNCHANGED offBridge

\* The "exit" callback of process p: handleExit(code).
handleExitCall(p, code) ==
    /\ ~tickPending
    /\ procs[p].st = "running"
    /\ op' = Step("exit", p, code, "")
    /\ procs' = [procs EXCEPT ![p] = [NoProc EXCEPT !.st = "exited"]]
    /\ process' = NoProcess
    /\ fired' = handleExitFires(code, state)
    /\ state' = handleExitState(code, state)
    /\ notified' = <<state'>>
    /\ spawned' = <<>> /\ shimOps' = <<>>
    /\ UNCHANGED <<shellWrapperPath, preparedEnv, adapterVars, envVars, nLines>>

\* handleExit with no listener on onEvent.
handleExit(p, code) ==
    /\ handleExitCall(p, code)
    /\ UNCHANGED offBridge

\* The "error" callback of a process that could not be spawned.
spawnErrorCall(p) ==
    /\ procs[p].st = "failed"
    /\ op' = Step("spawnError", p, NoCode, "")
    /\ procs' = [procs EXCEPT ![p].st = "dead"]
    /\ fired' = <<ErrorEvent(SpawnFailureMsg)>>
    /\ state' = "error"
    /\ notified' = <<"error">>
    /\ spawned' = <<>> /\ shimOps' = <<>>
    /\ UNCHANGED <<process, shellWrapperPath, preparedEnv, adapterVars, envVars, nLines>>

\* The error callback with no listener on onEvent.
spawnError(p) ==
    /\ spawnErrorCall(p)
    /\ UNCHANGED offBridge

\* The adapter's 100 ms trailing-edge timer fires: flushText().
flushTimerFiresCall ==
    /\ ~tickPending
    /\ flushTimer
    /\ op' = Step("flushTimer", NoProcess, NoCode, "")
    /\ fired' = flushTextFires(textBuffer)
    /\ textBuffer' = <<>>
    /\ flushTimer' = FALSE
    /\ notified' = <<>> /\ spawned' = <<>> /\ shimOps' = <<>>
    /\ UNCHANGED <<bridgeVars, envVars, procs, nLines>>

\* The timer with no listener on onEvent.
flushTimerFires ==
    /\ flushTimerFiresCall
    /\ UNCHANGED offBridge

SendPrompt == \E t \in Texts, r \in RefLists, ok \in BOOLEAN : sendPrompt(t, r, ok)
StdoutLine == \E p \in Pids, l \in StdoutLines : handleStdoutLine(p, l)
Stderr == \E p \in Pids, d \in StderrChunks : handleStderr(p, d)
Exit == \E p \in Pids, c \in ExitCodes : handleExit(p, c)
SpawnError == \E p \in Pids : spawnError(p)

Next ==
    \/ ContainerChange
    \/ ConfigChange
    \/ start
    \/ stop
    \/ SendPrompt
    \/ cancelCurrentRequest
    \/ StdoutLine
    \/ Stderr
    \/ Exit
    \/ SpawnError
    \/ flushTimerFires

Spec == Init /\ [][Next]_vars

-----------------------------------------------------------------------------
\* Activity tracker (SubagentTracker).  The Map of sub-tasks is the sequence of
\* its entries in insertion order.

SubIds == {"sa-1", "sa-2"}
\* `subagentId?: string` left out of a tool event.
NoId == "undefined"
Tools == {"shell", "file_read"}
NoTool == "undefined"
EndStatuses == {"completed", "failed", "cancelled"}
NoResult == "undefined"
\* `completedAt?: number` not set.
NoTime == 0
\* Date.now(): a wall-clock reading.  The tracker stores readings and tests a
\* stored one only for being set.
Now == 1

SubagentStartEvent(id) ==
    [type |-> "subagent_start", id |-> id, name |-> "coding-agent", parent |-> "default"]
SubagentEndEvent(id, status) == [type |-> "subagent_end", id |-> id, status |-> status]
ToolStartEvent(sid, tool) ==
    [type |-> "tool_start", tool |-> tool, args |-> "{}", subagentId |-> sid]
ToolEndEvent(sid, tool) ==
    [type |-> "tool_end", tool |-> tool, result |-> "ok", subagentId |-> sid]

\* this.subagents.get(id): the position of the entry, 0 when there is none.
IndexOf(subs, id) ==
    IF \E i \in 1..Len(subs) : subs[i].id = id
    THEN CHOOSE i \in 1..Len(subs) : subs[i].id = id
    ELSE 0

getActiveSubagents(subs) == SelectSeq(subs, LAMBDA s : s.status = "running")

handleSubagentStart(subs, event, now) ==
    LET info == [id |-> event.id, name |-> event.name, parent |-> event.parent,
                 status |-> "running", currentTool |-> NoTool,
                 startedAt |-> now, completedAt |-> NoTime, toolCalls |-> <<>>]
        i == IndexOf(subs, event.id)
    IN IF i = 0 THEN Append(subs, info) ELSE [subs EXCEPT ![i] = info]

handleSubagentEnd(subs, event, now) ==
    LET i == IndexOf(subs, event.id)
    IN IF i = 0 THEN subs
       ELSE [subs EXCEPT ![i].status = event.status,
                         ![i].completedAt = now,
                         ![i].currentTool = NoTool]

\* Mutant: a tool_start naming an unknown sub-task opens an entry for it.
handleToolStart_Creates(subs, subagentId, tool, args, now) ==
    LET i == IndexOf(subs, subagentId)
        toolCall == [tool |-> tool, args |-> args, result |-> NoResult,
                     startedAt |-> now, completedAt |-> NoTime]
    IN IF i = 0
       THEN Append(subs, [id |-> subagentId, name |-> "", parent |-> "default",
                          status |-> "running", currentTool |-> tool,
                          startedAt |-> now, completedAt |-> NoTime,
                          toolCalls |-> <<toolCall>>])
       ELSE [subs EXCEPT ![i].toolCalls = Append(@, toolCall),
                         ![i].currentTool = tool]

handleToolStart(subs, subagentId, tool, args, now) ==
    LET i == IndexOf(subs, subagentId)
        toolCall == [tool |-> tool, args |-> args, result |-> NoResult,
                     startedAt |-> now, completedAt |-> NoTime]
    IN IF i = 0 THEN subs
       ELSE [subs EXCEPT ![i].toolCalls = Append(@, toolCall),
                         ![i].currentTool = tool]

\* Mutant: the earliest open call of the tool is taken.
findOpenCall_First(toolCalls, tool) ==
    LET open == {k \in 1..Len(toolCalls) :
                    toolCalls[k].tool = tool /\ toolCalls[k].completedAt = NoTime}
    IN IF open = {} THEN 0 ELSE CHOOSE k \in open : \A j \in open : k <= j

\* [...info.toolCalls].reverse().find((t) => t.tool === tool && !t.completedAt):
\* the position of the call found, 0 when there is none.
findOpenCall(toolCalls, tool) ==
    LET open == {k \in 1..Len(toolCalls) :
                    toolCalls[k].tool = tool /\ toolCalls[k].completedAt = NoTime}
    IN IF open = {} THEN 0 ELSE CHOOSE k \in open : \A j \in open : j <= k

handleToolEnd(subs, subagentId, tool, result, now) ==
    LET i == IndexOf(subs, subagentId)
    IN IF i = 0 THEN subs
       ELSE LET tc == findOpenCall(subs[i].toolCalls, tool)
            IN [subs EXCEPT
                  ![i].toolCalls = IF tc = 0 THEN @
                                   ELSE [@ EXCEPT ![tc].result = result,
                                                  ![tc].completedAt = now],
                  ![i].currentTool = NoTool]

\* Mutant: done overwrites the sub-tasks that had already ended as well.
markAllCompleted_Every(subs, now) ==
    [i \in 1..Len(subs) |->
        [subs[i] EXCEPT !.status = "completed", !.completedAt = now,
                        !.currentTool = NoTool]]

markAllCompleted(subs, now) ==
    [i \in 1..Len(subs) |->
        IF subs[i].status = "running"
        THEN [subs[i] EXCEPT !.status = "completed", !.completedAt = now,
                             !.currentTool = NoTool]
        ELSE subs[i]]

\* handleEvent: the Map it leaves.
handleEventSubs(subs, event, now) ==
    CASE event.type = "subagent_start" -> handleSubagentStart(subs, event, now)
      [] event.type = "subagent_end" -> handleSubagentEnd(subs, event, now)
      [] event.type = "tool_start" ->
            IF event.subagentId # NoId
            THEN handleToolStart(subs, event.subagentId, event.tool, event.args, now)
            ELSE subs
      [] event.type = "tool_end" ->
            IF event.subagentId # NoId
            THEN handleToolEnd(subs, event.subagentId, event.tool, event.result, now)
            ELSE subs
      [] event.type = "done" -> markAllCompleted(subs, now)
      [] OTHER -> subs

\* handleEvent: the ids it fires on onSubagentChanged, in order.
handleEventChanged(subs, event) ==
    CASE event.type = "subagent_start" -> <<event.id>>
      [] event.type = "subagent_end" ->
            IF IndexOf(subs, event.id) # 0 THEN <<event.id>> ELSE <<>>
      [] event.type \in {"tool_start", "tool_end"} ->
            IF event.subagentId # NoId /\ IndexOf(subs, event.subagentId) # 0
            THEN <<event.subagentId>> ELSE <<>>
      [] event.type = "done" ->
            LET running == getActiveSubagents(subs)
            IN [i \in 1..Len(running) |-> running[i].id]
      [] OTHER -> <<>>

\* SubagentTracker.handleEvent(event), called at wall-clock time now.
handleEvent(event, now) ==
    /\ nEvents < MaxEvents
    /\ nEvents' = nEvents + 1
    /\ tev' = event
    /\ subagents' = handleEventSubs(subagents, event, now)
    /\ changed' = handleEventChanged(subagents, event)
    /\ UNCHANGED <<bridgeVars, adapterVars, envVars, procs, nLines, stepVars, tally, registryVars, rendered, asks>>

\* SubagentTracker.reset().
reset ==
    /\ subagents # <<>>
    /\ subagents' = <<>>
    /\ tev' = [type |-> "reset"]
    /\ changed' = <<>>
    /\ UNCHANGED <<nEvents, bridgeVars, adapterVars, envVars, procs, nLines, stepVars, tally, registryVars, rendered, asks>>

SubagentStart == \E id \in SubIds : handleEvent(SubagentStartEvent(id), Now)
SubagentEnd == \E id \in SubIds, s \in EndStatuses : handleEvent(SubagentEndEvent(id, s), Now)
ToolStart == \E sid \in SubIds \cup {NoId}, t \in Tools : handleEvent(ToolStartEvent(sid, t), Now)
ToolEnd == \E sid \in SubIds \cup {NoId}, t \in Tools : handleEvent(ToolEndEvent(sid, t), Now)
Done == handleEvent(DoneEvent, Now)

NextTracker ==
    \/ SubagentStart
    \/ SubagentEnd
    \/ ToolStart
    \/ ToolEnd
    \/ Done
    \/ reset

\* The tracker on its own, fed any events in any order; the bridge stays as
\* constructed.
InitTracker ==
    /\ Init
    /\ containerId = NoContainer
    /\ executionMode = "local-with-remote-exec"

SpecTracker == InitTracker /\ [][NextTracker]_vars

-----------------------------------------------------------------------------
\* The chat participant (handleAsk): /ask requests on the bridge, each with a
\* listener on bridge.onEvent that feeds the one tracker.  EventEmitter.fire
\* calls the listeners synchronously, inside the handler that fires.

\* The requests whose eventListener is registered.
Listening(a) == {r \in Requests : a[r].pc = "waiting"}

\* eventListener of one request, for one event: the request sees it, and
\* finish() resolves the request on done and on error and disposes its listeners.
eventListener(ask, event) ==
    [ask EXCEPT !.seen = @ + 1,
                !.pc = IF event.type \in {"done", "error"} THEN "resolved" ELSE @,
                !.result = IF event.type = "done" THEN "completed"
                           ELSE IF event.type = "error" THEN "error" ELSE @]

\* subagentTracker.handleEvent(event), once for each listener that is called.
RECURSIVE handleEventTimes(_, _, _)
handleEventTimes(subs, event, n) ==
    IF n = 0 THEN subs ELSE handleEventTimes(handleEventSubs(subs, event, Now), event, n - 1)

\* _onEvent.fire for each of evs in turn: the requests and the tracker's Map
\* afterwards.
RECURSIVE fire(_, _, _)
fire(a, subs, evs) ==
    IF evs = <<>> THEN [asks |-> a, subagents |-> subs]
    ELSE LET event == Head(evs)
             called == Listening(a)
         IN fire([r \in Requests |-> IF r \in called THEN eventListener(a[r], event) ELSE a[r]],
                 handleEventTimes(subs, event, Cardinality(called)),
                 Tail(evs))

offAsk == <<nEvents, tev, changed, tally, registryVars, rendered>>

\* What the events fired in this step do to the listeners.
deliver ==
    /\ asks' = fire(asks, subagents, fired').asks
    /\ subagents' = fire(asks, subagents, fired').subagents
    /\ UNCHANGED offAsk

\* handleAsk up to its `await executeCommand("setContext", ...)`, on a bridge
\* that is running: subagentTracker.reset().  (On a bridge that is not, it
\* awaits start() first, the start action, and returns when that failed.)
handleAsk(r) ==
    /\ ~tickPending
    /\ asks[r].pc = "none"
    /\ r > 1 => asks[r - 1].pc # "none"
    /\ isRunning(state)
    /\ asks' = [asks EXCEPT ![r].pc = "begun"]
    /\ subagents' = <<>>
    /\ op' = Step("handleAsk", NoProcess, NoCode, "")
    /\ fired' = <<>> /\ notified' = <<>> /\ spawned' = <<>> /\ shimOps' = <<>>
    /\ UNCHANGED <<bridgeVars, adapterVars, envVars, procs, nLines, offAsk>>

\* handleAsk after the await: bridge.sendPrompt(...), and then the Promise
\* executor registers eventListener and cancelListener.
handleAskSend(r, text, references, spawnOk) ==
    /\ ~tickPending
    /\ asks[r].pc = "begun"
    /\ sendPromptCall(text, references, spawnOk)
    /\ asks' = [fire(asks, subagents, fired').asks EXCEPT
                   ![r] = [@ EXCEPT !.pc = "waiting", !.pid = process']]
    /\ subagents' = fire(asks, subagents, fired').subagents
    /\ UNCHANGED offAsk

\* cancelListener: token.onCancellationRequested of request r.
cancelListener(r) ==
    /\ ~tickPending
    /\ asks[r].pc = "waiting"
    /\ cancelCurrentRequestCall
    /\ asks' = [asks EXCEPT ![r] = [@ EXCEPT !.pc = "resolved", !.result = "cancelled"]]
    /\ UNCHANGED <<subagents, offAsk>>

\* The lines the processes of the requests write.
AskLines == {LPlain, LText, LSubagentStart, LToolStart}

HandleAsk == \E r \in Requests : handleAsk(r)
HandleAskSend == \E r \in Requests, ok \in BOOLEAN : handleAskSend(r, "hello", <<>>, ok)
CancelListener == \E r \in Requests : cancelListener(r)
AskStdoutLine ==
    \E p \in Pids, l \in AskLines :
        nLines < MaxStreamLines /\ handleStdoutLineCall(p, l) /\ deliver
AskExit == \E p \in Pids, c \in ExitCodes : handleExitCall(p, c) /\ deliver
AskSpawnError == \E p \in Pids : spawnErrorCall(p) /\ deliver
AskFlushTimer == flushTimerFiresCall /\ deliver

NextAsk ==
    \/ ContainerChange
    \/ start
    \/ HandleAsk
    \/ HandleAskSend
    \/ CancelListener
    \/ AskStdoutLine
    \/ AskExit
    \/ AskSpawnError
    \/ AskFlushTimer

SpecAsk == Init /\ [][NextAsk]_vars

-----------------------------------------------------------------------------
\* The heuristic adapter on its own: a caller feeds it lines, its timer fires,
\* and it is disposed once.  tally keeps the history of the instance.

\* The lines fed to it: one for each detector, JSON it should not pass, plain
\* text and white space.
AdapterLines ==
    {LText, LTextContent, LUnknown, LBadJson, LStatus, LTool, LAgent, LCompletion, LError,
     LPlain, LBlank}

offAdapter ==
    <<bridgeVars, envVars, procs, nLines, notified, spawned, shimOps, trackerVars,
      registryVars, rendered, asks>>
disposed == op.name = "dispose"

\* adapter.processLine(raw).
callProcessLine(raw) ==
    LET r == processLine(raw, textBuffer, flushTimer)
        matched == Trim(raw) # "" /\ detect(Trim(raw)) # NoEvent
    IN /\ ~disposed
       /\ tally.calls < MaxAdapterLines
       /\ op' = Step("processLine", NoProcess, NoCode, raw)
       /\ fired' = r.fires
       /\ textBuffer' = r.buffer
       /\ flushTimer' = r.timer
       /\ tally' = [calls |-> tally.calls + 1,
                    structured |-> tally.structured + (IF matched THEN 1 ELSE 0),
                    emitted |-> tally.emitted + Len(r.fires),
                    textFlushes |-> tally.textFlushes
                                      + (IF matched /\ textBuffer # <<>> THEN 1 ELSE 0)]
       /\ UNCHANGED offAdapter

\* The callback of setTimeout(() => this.flushText(), 100).
flushTimeout ==
    /\ ~disposed
    /\ flushTimer
    /\ op' = Step("flushTimeout", NoProcess, NoCode, "")
    /\ fired' = flushTextFires(textBuffer)
    /\ textBuffer' = <<>>
    /\ flushTimer' = FALSE
    /\ tally' = [tally EXCEPT !.emitted = @ + Len(fired'),
                              !.textFlushes = @ + (IF textBuffer # <<>> THEN 1 ELSE 0)]
    /\ UNCHANGED offAdapter

\* adapter.dispose(): flushText(), then the emitter is disposed.
disposeAdapter ==
    /\ ~disposed
    /\ op' = Step("dispose", NoProcess, NoCode, "")
    /\ fired' = flushTextFires(textBuffer)
    /\ textBuffer' = <<>>
    /\ flushTimer' = FALSE
    /\ tally' = [tally EXCEPT !.emitted = @ + Len(fired'),
                              !.textFlushes = @ + (IF textBuffer # <<>> THEN 1 ELSE 0)]
    /\ UNCHANGED offAdapter

CallProcessLine == \E l \in AdapterLines : callProcessLine(l)

NextAdapter ==
    \/ CallProcessLine
    \/ flushTimeout
    \/ disposeAdapter

InitAdapter ==
    /\ Init
    /\ containerId = NoContainer
    /\ executionMode = "local-with-remote-exec"

SpecAdapter == InitAdapter /\ [][NextAdapter]_vars

\* A timer that is pending expires: the event loop runs the callback of a
\* setTimeout that was not cleared.
SpecAdapterLive == SpecAdapter /\ WF_vars(flushTimeout)

-----------------------------------------------------------------------------
\* The agent registry on its own: the watched config changes and it reloads,
\* and a caller picks a default agent.

offRegistry ==
    <<bridgeVars, adapterVars, envVars, procs, nLines, stepVars, trackerVars, tally,
      rendered, asks>>

\* registry.loadFromConfig(), reading this config and this listing.
loadFromConfig(config, workspaceRoot, listing) ==
    /\ lastCall' = [name |-> "loadFromConfig", config |-> config,
                    workspaceRoot |-> workspaceRoot, listing |-> listing,
                    id |-> "", threw |-> FALSE,
                    result |-> loadAgentsFromOpenCodeConfig(config, workspaceRoot, listing)]
    /\ agents' = setAll(<<>>, lastCall'.result.agents)
    /\ defaultAgentId' = IF ~mapHas(agents', lastCall'.result.defaultAgentId) /\ Len(agents') > 0
                         THEN firstKey(agents')
                         ELSE lastCall'.result.defaultAgentId
    /\ UNCHANGED offRegistry

\* registry.setDefaultAgent(id).
setDefaultAgent(id) ==
    /\ lastCall' = [lastCall EXCEPT !.name = "setDefaultAgent", !.id = id,
                                    !.threw = ~mapHas(agents, id)]
    /\ defaultAgentId' = IF mapHas(agents, id) THEN id ELSE defaultAgentId
    /\ UNCHANGED agents
    /\ UNCHANGED offRegistry

LoadFromConfig ==
    \E config \in Configs, workspaceRoot \in BOOLEAN, listing \in MarkdownListings :
        /\ ~workspaceRoot => listing = <<>>
        /\ loadFromConfig(config, workspaceRoot, listing)

SetDefaultAgent ==
    \E id \in {"plan", "docs", "nonexistent"} : setDefaultAgent(id)

NextRegistry ==
    \/ LoadFromConfig
    \/ SetDefaultAgent

InitRegistry ==
    /\ Init
    /\ containerId = NoContainer
    /\ executionMode = "local-with-remote-exec"

SpecRegistry == InitRegistry /\ [][NextRegistry]_vars

-----------------------------------------------------------------------------
\* The summary of sub-task activity (ResponseRenderer.renderSubagentSummary),
\* rendered once, when the response finishes, from what the tracker holds.

MaxToolCalls == 2

\* Clock readings: when the sub-tasks started, and how long one took.
StartedAt == 1
Elapsed == {0, 500, 999, 1000, 5049}

ToolCall == [tool |-> "shell", args |-> "{}", result |-> "ok",
             startedAt |-> StartedAt, completedAt |-> StartedAt]
ToolCallLists == {[k \in 1..n |-> ToolCall] : n \in 0..MaxToolCalls}

\* The entries the tracker can hold for one sub-task: running, with no
\* completion time, or ended with one.
SubagentInfos(id) ==
    {[id |-> id, name |-> "coding-agent", parent |-> "default", status |-> "running",
      currentTool |-> NoTool, startedAt |-> StartedAt, completedAt |-> NoTime,
      toolCalls |-> calls] : calls \in ToolCallLists}
      \cup {[id |-> id, name |-> "coding-agent", parent |-> "default", status |-> s,
             currentTool |-> NoTool, startedAt |-> StartedAt,
             completedAt |-> StartedAt + e, toolCalls |-> calls] :
               s \in EndStatuses, e \in Elapsed, calls \in ToolCallLists}

\* tracker.getAllSubagents() when the response finishes.
TrackedSubagents ==
    {<<>>}
      \cup {<<a>> : a \in SubagentInfos("sa-1") \cup SubagentInfos("sa-2")}
      \cup {<<a, b>> : a \in SubagentInfos("sa-1"), b \in SubagentInfos("sa-2")}
      \cup {<<b, a>> : a \in SubagentInfos("sa-1"), b \in SubagentInfos("sa-2")}

\* Mutant: the decimal is cut off, not rounded.
toFixed1_Truncates(ms) ==
    [unit |-> "s", whole |-> (ms \div 100) \div 10, tenth |-> (ms \div 100) % 10]

\* `${(ms / 1000).toFixed(1)}s`: the seconds rounded to the nearest tenth,
\* as "<whole>.<tenth>s".
toFixed1(ms) ==
    [unit |-> "s", whole |-> ((ms + 50) \div 100) \div 10, tenth |-> ((ms + 50) \div 100) % 10]

\* The word shown in place of a duration.
Running == [unit |-> "running", whole |-> 0, tenth |-> 0]

SummaryHeader == [header |-> "Subagent summary:"]

summaryLine(sa) ==
    [icon |-> IF sa.status = "completed" THEN "pass"
              ELSE IF sa.status = "failed" THEN "fail" ELSE "pending",
     name |-> sa.name,
     status |-> sa.status,
     duration |-> IF sa.completedAt # NoTime
                  THEN toFixed1(sa.completedAt - sa.startedAt)
                  ELSE Running,
     toolCalls |-> Len(sa.toolCalls)]

\* The lines joined into the one stream.markdown call; no call for no sub-task.
summaryLines(subs) ==
    IF Len(subs) = 0 THEN <<>>
    ELSE <<SummaryHeader>> \o [i \in 1..Len(subs) |-> summaryLine(subs[i])]

offSummary ==
    <<bridgeVars, adapterVars, envVars, procs, nLines, stepVars, trackerVars, tally,
      registryVars, asks>>

renderSubagentSummary ==
    /\ rendered = <<>>
    /\ rendered' = summaryLines(subagents)
    /\ UNCHANGED offSummary

NextSummary == renderSubagentSummary

InitSummary ==
    /\ Constructed
    /\ containerId = NoContainer
    /\ executionMode = "local-with-remote-exec"
    /\ subagents \in TrackedSubagents

SpecSummary == InitSummary /\ [][NextSummary]_vars

-----------------------------------------------------------------------------
\* Vocabulary of the properties.

CleanCodes == {0, NullCode}
InSeq(x, seq) == \E i \in 1..Len(seq) : seq[i] = x
Last(seq) == seq[Len(seq)]
\* The sandbox is addressable for the current routing mode.
Addressable ==
    /\ containerId # NoContainer
    /\ executionMode = "local-with-remote-exec" => remoteWorkspaceFolder # NoWorkspace
\* Processes that run and were never sent a kill.
Unkilled(ps) == {p \in Pids : ps[p].st = "running" /\ ~ps[p].killed}

\* C1: once a done has been emitted from the output stream of the current
\* prompt's process, the exit of that process with code 0 or null emits no
\* second done.
C1_NoSecondDone ==
    [][(/\ op'.name = "exit"
        /\ op'.code \in CleanCodes
        /\ op'.pid = LastSpawned
        /\ procs[op'.pid].streamDone) => ~HasDone(fired')]_vars

\* C2: start() from stopped with a reachable sandbox makes the bridge idle and
\* spawns nothing; sendPrompt(text) on the idle bridge then makes exactly one
\* spawn whose arguments contain the prompt text, and the bridge is busy.
C2_StartThenPrompt ==
    [][/\ (op'.name = "start" /\ state = "stopped" /\ Addressable)
            => (state' = "idle" /\ spawned' = <<>> /\ procs' = procs)
       /\ (op'.name = "sendPrompt" /\ state = "idle" /\ Addressable)
            => (/\ Len(spawned') = 1
                /\ InSeq(op'.text, Last(spawned'[1].args))
                /\ Cardinality(Spawned') = Cardinality(Spawned) + 1
                /\ state' = "busy")]_vars

C2_Witness ==
    /\ op.name = "sendPrompt" /\ op.from = "idle" /\ Addressable
    /\ Len(spawned) = 1 /\ state = "busy"
    /\ shellWrapperPath # NoPath

\* C3: when the current prompt's process exits with code 0 or null while the
\* bridge is busy and no done was emitted for that prompt, exactly one done
\* is emitted and the bridge becomes idle.
C3_SynthesizedDone ==
    [][(/\ op'.name = "exit"
        /\ op'.code \in CleanCodes
        /\ state = "busy"
        /\ op'.pid = LastSpawned
        /\ ~procs[op'.pid].streamDone)
          => (fired' = <<DoneEvent>> /\ state' = "idle")]_vars

C3_Witness ==
    /\ op.name = "exit" /\ op.code = NullCode /\ op.from = "busy"
    /\ op.pid = LastSpawned
    /\ fired = <<DoneEvent>> /\ state = "idle"

\* C4: a non-zero exit emits one error naming the code and no done, and the
\* bridge settles to idle, so isRunning() is true.
C4_NonZeroExit ==
    [][(op'.name = "exit" /\ op'.code \notin CleanCodes)
          => (/\ fired' = <<ErrorEvent(<<"OpenCode exited with code ", CodeStr(op'.code)>>)>>
              /\ state' = "idle"
              /\ isRunning(state'))]_vars

C4_Witness ==
    /\ op.name = "exit" /\ op.code = 1 /\ op.from = "busy"
    /\ HasError(fired) /\ ~HasDone(fired)
    /\ state = "idle"

\* C5: start() with the sandbox not addressable sets the state to error, emits
\* one error event, writes no routing shim and spawns nothing; isRunning() is
\* false.
C5_StartUnavailable ==
    [][(op'.name = "start" /\ state \in {"stopped", "error"} /\ ~Addressable)
          => (/\ state' = "error"
              /\ Len(fired') = 1 /\ fired'[1].type = "error"
              /\ shimOps' = <<>>
              /\ shellWrapperPath' = shellWrapperPath
              /\ preparedEnv' = preparedEnv
              /\ spawned' = <<>> /\ procs' = procs
              /\ ~isRunning(state'))]_vars

C5_Witness ==
    /\ op.name = "start" /\ op.from = "stopped"
    /\ executionMode = "local-with-remote-exec"
    /\ containerId # NoContainer /\ remoteWorkspaceFolder = NoWorkspace
    /\ state = "error" /\ Len(fired) = 1

\* C6: a spawn failure emits an error with the failure message and makes the
\* state error; once the current prompt's process has failed to spawn, the
\* state stays error until the caller acts on the bridge again (the claim
\* names start(); stop() and sendPrompt() are let through here as well): no
\* callback takes the bridge out of error.
C6_SpawnFailureSticks ==
    [][/\ op'.name = "spawnError"
            => (fired' = <<ErrorEvent(SpawnFailureMsg)>> /\ state' = "error")
       /\ (/\ state = "error"
           /\ LastSpawned # NoProcess
           /\ procs[LastSpawned].st = "dead"
           /\ op'.name \notin {"start", "stop", "sendPrompt"})
            => state' = "error"]_vars

\* C7: start() while idle or busy changes nothing and fires nothing.
C7_StartIdempotent ==
    [][(op'.name = "start" /\ state \in {"idle", "busy"})
          => (/\ UNCHANGED <<state, process, shellWrapperPath, preparedEnv>>
              /\ UNCHANGED <<textBuffer, flushTimer, procs>>
              /\ fired' = <<>> /\ notified' = <<>>
              /\ spawned' = <<>> /\ shimOps' = <<>>)]_vars

C7_Witness ==
    /\ op.name = "start" /\ op.from = "busy" /\ state = "busy"
    /\ process # NoProcess /\ procs[process].st = "running"
    /\ notified = <<>>

\* C8: sendPrompt kills the process in flight before it spawns the next one,
\* and the later exit callback of that killed process emits neither done nor
\* error and leaves the state alone while the new prompt's process runs.
C8_LastPromptWins ==
    [][/\ (op'.name = "sendPrompt" /\ process # NoProcess /\ Live(procs, process))
            => procs'[process].killed
       /\ (/\ op'.name = "exit"
           /\ op'.pid # LastSpawned
           /\ procs[op'.pid].killed
           /\ Live(procs, LastSpawned))
            => (state' = state /\ ~HasDone(fired') /\ ~HasError(fired'))]_vars

\* C9: cancelCurrentRequest() kills the process in flight if there is one,
\* emits nothing and leaves the state alone.
C9_CancelKillsInFlight ==
    [][op'.name = "cancel"
          => (/\ Unkilled(procs') = {}
              /\ fired' = <<>> /\ notified' = <<>>
              /\ state' = state)]_vars

\* C10: stop() kills the active process, removes the routing shim, clears the
\* prepared environment and leaves the bridge stopped.
C10_StopReleasesAll ==
    [][op'.name = "stop"
          => (/\ Unkilled(procs') = {}
              /\ shellWrapperPath' = NoPath
              /\ preparedEnv' = NoEnv
              /\ state' = "stopped"
              /\ ~isRunning(state'))]_vars

\* The done-equivalent native lines.
NativeDoneLines == {LStepFinish, LDone}

\* C11: a native done or step_finish line handled while the bridge is busy
\* emits one done event and makes the bridge idle in that same step, whether or
\* not the process has exited (its record is left as it was); a prompt sent to
\* the idle bridge while that process still runs is accepted: it spawns the
\* next process and the bridge is busy.
C11_NativeDoneSettles ==
    [][/\ (/\ op'.name = "stdout"
           /\ state = "busy"
           /\ \E l \in NativeDoneLines : handleStdoutLine(op'.pid, l))
            => (/\ fired' = <<DoneEvent>>
                /\ state' = "idle"
                /\ notified' = <<"idle">>
                /\ isRunning(state')
                /\ process' = process
                /\ \A p \in Pids : procs'[p].st = procs[p].st)
       /\ (/\ op'.name = "sendPrompt"
           /\ state = "idle"
           /\ process # NoProcess /\ Live(procs, process)
           /\ Addressable)
            => (Len(spawned') = 1 /\ process' = NewPid /\ state' = "busy")]_vars

C11_Witness ==
    /\ op.name = "stdout" /\ op.from = "busy"
    /\ fired = <<DoneEvent>> /\ state = "idle"
    /\ process = op.pid /\ procs[process].st = "running"
    /\ ~procs[process].killed

\* The type tags mapEvent recognizes.
NativeTags ==
    {"text", "status", "done", "error", "tool_start", "tool_end",
     "subagent_start", "subagent_end", "step_start", "step_finish"}
\* Lines that parse as a JSON object whose type tag is not a native one.
UnknownTagLines ==
    {l \in AllLines : JsonParse(l).ok /\ JsonParse(l).type \notin NativeTags}

\* C12: a stdout line that parses as a JSON object with an unrecognized type
\* tag emits exactly one text event with its text (or content) field when it
\* has one, and otherwise emits no event at all.
C12_UnknownTagDropped ==
    [][\A l \in UnknownTagLines :
          (op'.name = "stdout" /\ handleStdoutLine(op'.pid, l))
            => fired' = (LET raw == JsonParse(l)
                         IN IF Has(raw, "text") THEN <<TextEvent(raw.text, "default")>>
                            ELSE IF Has(raw, "content")
                                 THEN <<TextEvent(raw.content, "default")>>
                                 ELSE <<>>)]_vars

\* A line that starts with one of the severity prefixes, in any letter case.
StartsWithSeverity(line) == line \in {EErr, ELower}
NonBlank(chunk) == SelectSeq(chunk, LAMBDA l : ~IsBlank(l))
\* One event per non-blank line: error for a severity-prefixed line, status
\* from "system" for any other.
PerLineEvents(chunk) ==
    [i \in 1..Len(NonBlank(chunk)) |->
        IF StartsWithSeverity(NonBlank(chunk)[i])
        THEN ErrorEvent(<<NonBlank(chunk)[i]>>)
        ELSE StatusEvent(<<NonBlank(chunk)[i]>>, "system")]

\* C13: every non-empty line written to standard error is classified on its
\* own: a line starting with Error, ERROR, FATAL, fatal, panic, PANIC or
\* Traceback emits an error event whose message is that line, any other
\* non-empty line emits a status event with that line as message and agent
\* "system", and white space alone emits nothing.
C13_StderrPerLine ==
    [][\A d \in StderrChunks :
          (op'.name = "stderr" /\ handleStderr(op'.pid, d))
            => fired' = PerLineEvents(d)]_vars

\* The references, each prefixed with @, with one space between neighbours.
RECURSIVE AtJoined(_)
AtJoined(r) ==
    IF Len(r) = 1 THEN <<"@" \o r[1]>>
    ELSE <<"@" \o Head(r), " ">> \o AtJoined(Tail(r))

\* C14: the last argument of the spawn a sendPrompt(t, r) makes is t itself
\* when r is empty, and otherwise the references each prefixed with @ and
\* joined by single spaces in their order, then a blank line, then t.
C14_DispatchedInstruction ==
    [][\A t \in Texts, r \in RefLists :
          (/\ op'.name = "sendPrompt"
           /\ spawned' # <<>>
           /\ \E ok \in BOOLEAN : sendPrompt(t, r, ok))
            => Last(spawned'[1].args) =
                  (IF r = <<>> THEN <<t>> ELSE AtJoined(r) \o <<"\n\n", t>>)]_vars

C14_Witness ==
    /\ op.name = "sendPrompt"
    /\ Len(spawned) = 1
    /\ Last(spawned[1].args) = <<"@/src/a.ts", " ", "@/src/b.ts", "\n\n", "hello">>

\* The open calls of a tool in a call list: same tool name, no completedAt.
OpenCalls(toolCalls, tool) ==
    {k \in 1..Len(toolCalls) :
        toolCalls[k].tool = tool /\ toolCalls[k].completedAt = NoTime}
Greatest(S) == CHOOSE k \in S : \A j \in S : j <= k
Unknown(subs, id) == \A i \in 1..Len(subs) : subs[i].id # id

\* C15: a tool_end for (subTaskId, tool) with an open call of that tool
\* completes exactly the most recently started one: that call gets the result
\* and a completion time, every other call of the sub-task and every other
\* sub-task is as before.
C15_ToolEndMostRecent ==
    [][tev'.type = "tool_end" =>
          /\ Len(subagents') = Len(subagents)
          /\ \A i \in 1..Len(subagents) :
                LET calls == subagents[i].toolCalls
                    open == OpenCalls(calls, tev'.tool)
                IN IF subagents[i].id # tev'.subagentId
                   THEN subagents'[i] = subagents[i]
                   ELSE open # {} =>
                          /\ Len(subagents'[i].toolCalls) = Len(calls)
                          /\ \A k \in 1..Len(calls) :
                                IF k = Greatest(open)
                                THEN subagents'[i].toolCalls[k] =
                                        [calls[k] EXCEPT !.result = tev'.result,
                                                         !.completedAt = Now]
                                ELSE subagents'[i].toolCalls[k] = calls[k]]_vars

C15_Witness ==
    /\ tev.type = "tool_end"
    /\ \E i \in 1..Len(subagents) :
          /\ subagents[i].id = tev.subagentId
          /\ Len(subagents[i].toolCalls) = 2
          /\ subagents[i].toolCalls[1].tool = tev.tool
          /\ subagents[i].toolCalls[2].tool = tev.tool
          /\ subagents[i].toolCalls[1].completedAt = NoTime
          /\ subagents[i].toolCalls[2].completedAt # NoTime

\* C16: done makes every running sub-task completed, with a completion time,
\* leaves every sub-task that had already ended exactly as it was, and leaves
\* no active sub-task.
C16_DoneCompletesRunning ==
    [][tev'.type = "done" =>
          /\ Len(subagents') = Len(subagents)
          /\ \A i \in 1..Len(subagents) :
                IF subagents[i].status = "running"
                THEN /\ subagents'[i].status = "completed"
                     /\ subagents'[i].completedAt # NoTime
                ELSE subagents'[i] = subagents[i]
          /\ getActiveSubagents(subagents') = <<>>]_vars

C16_Witness ==
    /\ tev.type = "done"
    /\ \E i, j \in 1..Len(subagents) :
          /\ subagents[i].status = "failed"
          /\ subagents[j].status = "completed"
          /\ changed = <<subagents[j].id>>

\* C17: a subagent_end naming an unknown id, and a tool_start or tool_end with
\* no subTaskId or an unknown one, leave the tracker's Map exactly as it was
\* and fire no change notification.
C17_UnknownIgnored ==
    [][(\/ tev'.type = "subagent_end" /\ Unknown(subagents, tev'.id)
        \/ /\ tev'.type \in {"tool_start", "tool_end"}
           /\ (tev'.subagentId = NoId \/ Unknown(subagents, tev'.subagentId)))
          => (subagents' = subagents /\ changed' = <<>>)]_vars

C17_Witness ==
    /\ tev.type = "tool_start"
    /\ tev.subagentId # NoId
    /\ Unknown(subagents, tev.subagentId)
    /\ subagents # <<>>
    /\ changed = <<>>

\* C18: a tool_end that names a known sub-task but matches no open call of it
\* leaves that sub-task's status, currentTool and call list as they were.
C18_StaleToolEndIgnored ==
    [][tev'.type = "tool_end" =>
          \A i \in 1..Len(subagents) :
             (/\ subagents[i].id = tev'.subagentId
              /\ OpenCalls(subagents[i].toolCalls, tev'.tool) = {})
               => (/\ subagents'[i].status = subagents[i].status
                   /\ subagents'[i].currentTool = subagents[i].currentTool
                   /\ subagents'[i].toolCalls = subagents[i].toolCalls)]_vars

\* C19: when processLine detects a structured line, it first fires the pending
\* text buffer, if there is any, as one text event and then the structured
\* event, and nothing else; the buffer is empty afterwards.
C19_FlushBeforeStructured ==
    [][(/\ op'.name = "processLine"
        /\ Trim(op'.text) # ""
        /\ detect(Trim(op'.text)) # NoEvent)
          => (/\ fired' = (IF textBuffer # <<>>
                           THEN <<TextEvent(textBuffer, "default")>> ELSE <<>>)
                          \o <<detect(Trim(op'.text))>>
              /\ textBuffer' = <<>>)]_vars

C19_Witness ==
    /\ op.name = "processLine"
    /\ fired = <<TextEvent(<<LPlain, LPlain>>, "default"), DoneEvent>>
    /\ textBuffer = <<>>

\* C20 as stated: when the adapter is disposed, the events emitted over its
\* life number the lines that matched a structured pattern, plus one if the
\* buffer was not empty at disposal.
C20_CountAtDisposal ==
    disposed => tally.emitted = tally.structured + Len(fired)

\* C20, amended: at every moment the events emitted number the lines that
\* matched a structured pattern plus the flushes (before a structured event,
\* by the timer, at disposal) that found text in the buffer; a step fires at
\* most one text event ahead of a structured event, and a timer or disposal
\* flush fires at most that one text event.
C20_CountPerFlush ==
    /\ tally.emitted = tally.structured + tally.textFlushes
    /\ Len(fired) <= 2
    /\ Len(fired) = 2 => (op.name = "processLine" /\ fired[1].type = "text")
    /\ op.name \in {"flushTimeout", "dispose"}
          => (Len(fired) <= 1 /\ (fired # <<>> => fired[1].type = "text"))

C20_Witness ==
    /\ disposed
    /\ tally.structured = 1
    /\ tally.textFlushes = 2
    /\ tally.emitted = 3
    /\ Len(fired) = 1

\* The lines of the adapter's input that no detector matches.
BufferedLines == {l \in AdapterLines : Trim(l) # "" /\ detect(Trim(l)) = NoEvent}
\* What the text buffer can hold.
BufferContents == UNION {[1..n -> BufferedLines] : n \in 1..MaxAdapterLines}
IsPrefix(a, b) == Len(a) <= Len(b) /\ SubSeq(b, 1, Len(a)) = a

\* C21: whenever the text buffer is non-empty the flush timer is pending, and
\* whatever the buffer holds is eventually emitted, whole, at the head of one
\* text event.
C21_BufferEventuallyFlushed ==
    /\ [](textBuffer # <<>> => flushTimer)
    /\ \A b \in BufferContents :
          (textBuffer = b) ~> (/\ fired # <<>>
                               /\ fired[1].type = "text"
                               /\ Has(fired[1], "content")
                               /\ IsPrefix(b, fired[1].content)
                               /\ textBuffer = <<>>)

C21_Witness ==
    /\ op.name = "flushTimeout"
    /\ fired = <<TextEvent(<<LPlain, LPlain>>, "default")>>
    /\ textBuffer = <<>> /\ ~flushTimer

\* The event of the earliest detector that matches a trimmed line, in the order
\* JSON, status, tool, sub-task, completion, error; NoEvent when none does.
EarliestMatch(line) ==
    CASE tryParseJson(line) # NoEvent -> tryParseJson(line)
      [] detectStatusLine(line) # NoEvent -> detectStatusLine(line)
      [] detectToolCall(line) # NoEvent -> detectToolCall(line)
      [] detectSubagent(line) # NoEvent -> detectSubagent(line)
      [] detectCompletion(line) # NoEvent -> detectCompletion(line)
      [] detectError(line) # NoEvent -> detectError(line)
      [] OTHER -> NoEvent

\* C22: for a line that is not blank, processLine emits the event of the
\* earliest matching detector and no other structured event (the flushed buffer
\* may come before it); a line no detector matches emits nothing and is
\* appended to the buffer.
C22_FirstDetectorWins ==
    [][(op'.name = "processLine" /\ Trim(op'.text) # "")
          => LET line == Trim(op'.text)
                 e == EarliestMatch(line)
             IN IF e # NoEvent
                THEN /\ Len(fired') = (IF textBuffer # <<>> THEN 2 ELSE 1)
                     /\ Last(fired') = e
                     /\ textBuffer' = <<>>
                ELSE /\ fired' = <<>>
                     /\ textBuffer' = Append(textBuffer, line)]_vars

C22_Witness ==
    /\ op.name = "processLine" /\ op.text = LError
    /\ fired = <<TextEvent(<<LPlain>>, "default"), ErrorEvent("boom")>>

\* The variants of OpenCodeEvent.
SchemaTypes ==
    {"status", "text", "tool_start", "tool_end", "subagent_start", "subagent_end",
     "done", "error"}
\* An event of the schema, judged by its type tag alone.
WellFormed(e) == e.type \in SchemaTypes

\* C23: every event the adapter emits is a well-formed schema event, and a
\* line that starts with a brace but is not JSON, or whose type tag is not a
\* schema variant, emits no JSON event: it ends up in the text buffer.
C23_OnlySchemaEvents ==
    op.name = "processLine"
      => /\ \A i \in 1..Len(fired) : WellFormed(fired[i])
         /\ (/\ StartsWithBrace(op.text)
             /\ (~JsonParse(op.text).ok \/ JsonParse(op.text).type \notin SchemaTypes))
              => (fired = <<>> /\ textBuffer # <<>> /\ Last(textBuffer) = op.text)

\* The ids that are keys of a Map, and the ids a listing names.
Ids(map) == {map[i].id : i \in 1..Len(map)}
Listed(listing) == {listing[i] : i \in 1..Len(listing)}

\* C24: the default agent id names an agent of the registry whenever there is
\* one; a reload whose configured default is not among the merged agents
\* falls back to the first agent in insertion order; setDefaultAgent with an
\* unknown id throws and changes neither the agents nor the default.
C24_DefaultResolves ==
    [][/\ agents # <<>> => defaultAgentId \in Ids(agents)
       /\ agents' # <<>> => defaultAgentId' \in Ids(agents')
       /\ (/\ lastCall'.name = "loadFromConfig"
           /\ lastCall'.result.defaultAgentId \notin Ids(agents'))
            => defaultAgentId' = agents'[1].id
       /\ (/\ lastCall'.name = "setDefaultAgent"
           /\ lastCall'.id \notin Ids(agents))
            => (lastCall'.threw /\ agents' = agents /\ defaultAgentId' = defaultAgentId)]_vars

\* A reload fell back from a default that is not configured, a later
\* setDefaultAgent with an unknown id was rejected, and the default is still
\* the first agent.
C24_Witness ==
    /\ lastCall.name = "setDefaultAgent"
    /\ lastCall.threw
    /\ lastCall.config.found
    /\ lastCall.config.default_agent = "nonexistent"
    /\ Len(agents) = 3
    /\ defaultAgentId = agents[1].id

\* The entries of the config read and of the listing read by the latest reload.
ConfigEntries == IF lastCall.config.found THEN lastCall.config.agent ELSE <<>>
MarkdownEntries == IF lastCall.workspaceRoot THEN lastCall.listing ELSE <<>>

\* C25: the agents returned by loadAgentsFromOpenCodeConfig are the built-in
\* agents, overridden and extended by the config file's agents, overridden and
\* extended by the workspace's markdown agents: build and plan are present,
\* every id of every layer is present once, and each agent is the definition
\* of the last layer that names its id (config `build` with model
\* "openai/gpt-4" has provider openai and model gpt-4).
C25_LayeredMerge ==
    lastCall.name = "loadFromConfig"
      => LET res == lastCall.result.agents
         IN /\ BuiltinIds \subseteq Ids(res)
            /\ \A i, j \in 1..Len(res) : res[i].id = res[j].id => i = j
            /\ Ids(res) = BuiltinIds \cup Ids(ConfigEntries) \cup Listed(MarkdownEntries)
            /\ \A i \in 1..Len(res) :
                  IF res[i].id \in Listed(MarkdownEntries)
                  THEN /\ res[i].provider = Str("configured")
                       /\ res[i].model = Str("from-prompt")
                  ELSE IF res[i].id \in Ids(ConfigEntries)
                  THEN /\ res[i].description = "description of the entry"
                       /\ \A k \in 1..Len(ConfigEntries) :
                             (/\ ConfigEntries[k].id = res[i].id
                              /\ ConfigEntries[k].model = ModelOpenAI)
                               => (/\ res[i].provider = Str("openai")
                                   /\ res[i].model = Str("gpt-4"))
                  ELSE /\ res[i].provider = Str("anthropic")
                       /\ \E b \in 1..Len(BUILTIN_AGENTS) : res[i] = BUILTIN_AGENTS[b]

\* The config overrides `build` with "openai/gpt-4" and adds an agent ahead of
\* it, and a markdown file adds another.
C25_Witness ==
    /\ lastCall.name = "loadFromConfig"
    /\ lastCall.config.found
    /\ lastCall.config.agent =
          <<RawAgentDef("code-reviewer", ModelBare), RawAgentDef("build", ModelOpenAI)>>
    /\ lastCall.workspaceRoot
    /\ lastCall.listing = <<"docs">>
    /\ Len(lastCall.result.agents) = 4
    /\ lastCall.result.agents[1].id = "build"
    /\ lastCall.result.agents[1].provider = Str("openai")
    /\ lastCall.result.agents[1].model = Str("gpt-4")

\* The place of the first slash of a model string, 0 when it has none.
FirstSlash(s) ==
    IF \E i \in 1..Len(s) : s[i] = "/"
    THEN CHOOSE i \in 1..Len(s) : s[i] = "/" /\ \A j \in 1..(i - 1) : s[j] # "/"
    ELSE 0

\* C26: a config entry with a non-empty model string s gets, when s has a
\* slash, the part before the first slash as provider and all that follows it
\* as model, and when s has no slash, provider "unknown" and model s.
C26_SplitOnFirstSlash ==
    lastCall.name = "loadFromConfig"
      => \A k \in 1..Len(ConfigEntries) :
            LET s == ConfigEntries[k].model
                res == lastCall.result.agents
            IN (s # NoModel /\ ConfigEntries[k].id \notin Listed(MarkdownEntries))
                 => \E i \in 1..Len(res) :
                       /\ res[i].id = ConfigEntries[k].id
                       /\ res[i].provider = (IF FirstSlash(s) = 0 THEN Str("unknown")
                                             ELSE SubSeq(s, 1, FirstSlash(s) - 1))
                       /\ res[i].model = (IF FirstSlash(s) = 0 THEN s
                                          ELSE SubSeq(s, FirstSlash(s) + 1, Len(s)))

\* The time a sub-task took, when it has a completion time.
ElapsedMs(sa) == sa.completedAt - sa.startedAt
\* One line for each sub-task, in order, with its status and tool-call count.
OneLineEach ==
    /\ Len(rendered) = Len(subagents) + 1
    /\ \A i \in 1..Len(subagents) :
          /\ rendered[i + 1].status = subagents[i].status
          /\ rendered[i + 1].toolCalls = Len(subagents[i].toolCalls)

\* C27 as stated: one line for each tracked sub-task with its status and
\* tool-call count; an elapsed time under 1000 ms is shown in milliseconds,
\* one of 1000 ms or more in seconds with one decimal.
C27_MillisBelowSecond ==
    rendered # <<>>
      => /\ OneLineEach
         /\ \A i \in 1..Len(subagents) :
               subagents[i].completedAt # NoTime
                 => LET ms == ElapsedMs(subagents[i])
                        d == rendered[i + 1].duration
                    IN IF ms < 1000
                       THEN d.unit = "ms" /\ d.whole = ms
                       ELSE /\ d.unit = "s"
                            /\ 100 * (10 * d.whole + d.tenth) - ms \in -50..50

\* C27, amended: one line for each tracked sub-task with its status and
\* tool-call count; a sub-task with a completion time shows its elapsed time
\* in seconds with one decimal whatever its length, one without shows
\* "running" in place of a duration.
C27_SecondsOneDecimal ==
    rendered # <<>>
      => /\ OneLineEach
         /\ \A i \in 1..Len(subagents) :
               LET d == rendered[i + 1].duration
               IN IF subagents[i].completedAt # NoTime
                  THEN /\ d.unit = "s"
                       /\ d.tenth \in 0..9
                       /\ 100 * (10 * d.whole + d.tenth) - ElapsedMs(subagents[i]) \in -50..50
                  ELSE d = Running

\* A summary of a sub-task that took 999 ms, shown as 1.0s, and of one still
\* running.
C27_Witness ==
    /\ Len(rendered) = 3
    /\ subagents[1].status = "failed"
    /\ ElapsedMs(subagents[1]) = 999
    /\ rendered[2].duration = [unit |-> "s", whole |-> 1, tenth |-> 0]
    /\ rendered[2].toolCalls = 2
    /\ subagents[2].status = "running"
    /\ rendered[3].duration = Running

\* C28: the completion sources of one prompt's process settle it once: after
\* a done was emitted from the output of a process, no later line of that
\* process and no exit of it emits another done, whatever the exit code and
\* whichever prompt is the latest.
C28_SettlesOnce ==
    [][(/\ op'.name \in {"stdout", "exit"}
        /\ procs[op'.pid].streamDone) => ~HasDone(fired')]_vars

\* C29: a process that runs and was never sent a kill by the bridge is the one
\* the bridge refers to.
C29_LiveProcessTracked ==
    \A p \in Unkilled(procs) : process = p

\* C30: while the bridge is stopped, the exit callback of a process that was
\* killed, and output of it that arrives late, leaves the state stopped and
\* emits no done.
C30_StoppedStaysStopped ==
    [][(/\ state = "stopped"
        /\ op'.name \in {"stdout", "stderr", "exit"}
        /\ procs[op'.pid].killed) => (state' = "stopped" /\ ~HasDone(fired'))]_vars

\* C38: a sub-task that has ended keeps its status and its completion time
\* through every later event for an entry that exists (a subagent_end, a
\* tool event, a done); only reset(), or a new subagent_start under its id,
\* replaces it.
C38_TerminalSticky ==
    [][tev'.type \in {"subagent_end", "tool_start", "tool_end", "done"}
          => \A i \in 1..Len(subagents) :
                subagents[i].status \in EndStatuses
                  => (/\ Len(subagents') >= i
                      /\ subagents'[i].status = subagents[i].status
                      /\ subagents'[i].completedAt = subagents[i].completedAt)]_vars

\* The open calls of a sub-task: those with no completedAt.
OpenOf(info) == {k \in 1..Len(info.toolCalls) : info.toolCalls[k].completedAt = NoTime}

\* C39: a running sub-task has currentTool set exactly when one of its tool
\* calls is open, and then it names the most recently started open call.
C39_CurrentToolTracksOpen ==
    \A i \in 1..Len(subagents) :
        subagents[i].status = "running"
          => IF OpenOf(subagents[i]) = {}
             THEN subagents[i].currentTool = NoTool
             ELSE subagents[i].currentTool =
                     subagents[i].toolCalls[Greatest(OpenOf(subagents[i]))].tool

\* The content of the text events among evs, joined in emission order.
RECURSIVE Contents(_)
Contents(evs) ==
    IF evs = <<>> THEN <<>>
    ELSE (IF Head(evs).type = "text" /\ Has(Head(evs), "content")
          THEN Head(evs).content ELSE <<>>) \o Contents(Tail(evs))
\* What a call contributes to the narration: the trimmed line when it is not
\* empty and no detector matches it.
Narrated(o) ==
    IF o.name = "processLine" /\ Trim(o.text) # "" /\ EarliestMatch(Trim(o.text)) = NoEvent
    THEN <<Trim(o.text)>>
    ELSE <<>>
\* The events of a step that flushText built: all of them, but for the event
\* of the detector that matched the line of a processLine call.
Flushed(o, evs) ==
    IF o.name = "processLine" /\ evs # <<>> THEN SubSeq(evs, 1, Len(evs) - 1) ELSE evs

\* C40 as stated: the contents of the text events a step emits, followed by
\* what stays buffered, are what was buffered followed by the line of the
\* call when no detector matched it.
C40_EveryTextFromUnmatched ==
    [][Contents(fired') \o textBuffer' = textBuffer \o Narrated(op')]_vars

\* C40: for the text events built from the buffer (every text event but a
\* JSON line of type text passed through), each step emits and keeps, in
\* order, what was buffered followed by the unmatched line of the call; every
\* such event is a text event with content; and nothing stays buffered after
\* dispose.
C40_TextConserved ==
    [][/\ Contents(Flushed(op', fired')) \o textBuffer' = textBuffer \o Narrated(op')
       /\ \A i \in 1..Len(Flushed(op', fired')) :
             /\ fired'[i].type = "text"
             /\ fired'[i].content # <<>>
       /\ op'.name = "dispose" => textBuffer' = <<>>]_vars

C40_Witness ==
    /\ disposed
    /\ fired = <<TextEvent(<<LBadJson, LPlain>>, "default")>>
    /\ textBuffer = <<>>

\* C31: while the bridge is running in local-with-remote-exec mode the
\* prepared environment and the routing shim exist, and every prompt process
\* spawned on the host has the shim as its SHELL.
C31_RunningMeansPrepared ==
    /\ (isRunning(state) /\ executionMode = "local-with-remote-exec")
          => (preparedEnv # NoEnv /\ shellWrapperPath # NoPath)
    /\ \A i \in 1..Len(spawned) :
          spawned[i].command = "opencode"
            => /\ spawned[i].env # NoEnv
               /\ shellWrapperPath # NoPath
               /\ spawned[i].env.SHELL = shellWrapperPath

\* C32: whenever the state is busy the bridge holds a process for the current
\* prompt that has still to exit or to report its spawn failure, so that the
\* exit or the failure of that process takes the bridge out of busy.
C32_BusyHasProcess ==
    state = "busy" => (process # NoProcess /\ procs[process].st \in {"running", "failed"})

\* C33: when the bridge emits the done of a prompt, no narration is still
\* held back: every plain line taken from stdout has gone out in a text event
\* by then, so none is emitted after the done.
C33_NarrationBeforeDone ==
    [][HasDone(fired') => textBuffer' = <<>>]_vars

\* C34: the event of a stdout line is emitted after the text buffered from
\* the plain lines before it: when a line produces an event while text is
\* buffered, the step emits that text as well (the line's event is not alone)
\* and no text stays behind it in the buffer.
C34_BufferedTextFirst ==
    [][(op'.name = "stdout" /\ fired' # <<>> /\ textBuffer # <<>>)
          => (Len(fired') > 1 /\ textBuffer' = <<>>)]_vars

\* C35: when the process of a request that was cancelled exits, the done or
\* error of its exit handler is handed to the listener of that request, which
\* feeds the tracker and the response.
C35_ExitEventAfterCancel ==
    [][\A r \in Requests :
          (/\ op'.name = "exit"
           /\ op'.pid = asks[r].pid
           /\ asks[r].result = "cancelled"
           /\ fired' # <<>>)
            => asks'[r].seen = asks[r].seen + Len(fired')]_vars

\* C36: a request that waits for its result has a process that has still to
\* exit or to fail, whose done or error will resolve it without a cancel.
C36_WaitingHasProcess ==
    \A r \in Requests :
        asks[r].pc = "waiting" => \E p \in Pids : procs[p].st \in {"running", "failed"}

\* C37: while requests are listening, a tool_start taken from stdout for a
\* tracked sub-task adds exactly one tool call to that sub-task.
C37_ToolStartAddsOne ==
    [][\A i \in 1..Len(subagents) :
          (/\ op'.name = "stdout"
           /\ Listening(asks) # {}
           /\ fired' = <<ToolStartEvent(subagents[i].id, "shell")>>)
            => (/\ Len(subagents') = Len(subagents)
                /\ Len(subagents'[i].toolCalls) = Len(subagents[i].toolCalls) + 1)]_vars

====
